---- MODULE Spec2Model ----
(***************************************************************************)
(* Protocomm: a popup launcher.  The repository holds three evolutionary   *)
(* variants of the same program:                                           *)
(*   "tk"   - tkinter variant          (src/main.pyw, lines 267-481)        *)
(*   "qt"   - first PyQt6 variant      (src/main.pyw, lines 1-265)          *)
(*   "qtcm" - PyQt6 with CommandManager (src/unnamed/part_001)              *)
(* The model runs one session of one variant: startup (main), then the     *)
(* event loop with its key, focus and timer handlers.                      *)
(***************************************************************************)
EXTENDS Integers, Sequences, FiniteSets, TLC

\* ------------------------------------------------------------------ bounds
\* Largest number of blanks put on each side of a typed word.
MaxPad == 1
\* Largest number of Return presses with a non-blank input in one session.
MaxSubmits == 3
\* Milliseconds by which one step of the clock advances the time.
TickMs == 100

\* ------------------------------------------------------- program constants
\* duration=200 (ms) of every flash.
FlashDuration == 200

\* ----------------------------------------------------------------- strings
\* A Python str is a sequence of one-character strings.
LowerLetters == <<"a", "c", "d", "e", "f", "g", "i", "m", "n", "o", "s", "t">>
UpperLetters == <<"A", "C", "D", "E", "F", "G", "I", "M", "N", "O", "S", "T">>
Whitespace == {" ", "\t"}

LowerChar(c) ==
    IF \E i \in 1..Len(UpperLetters) : UpperLetters[i] = c
    THEN LowerLetters[CHOOSE i \in 1..Len(UpperLetters) : UpperLetters[i] = c]
    ELSE c

UpperChar(c) ==
    IF \E i \in 1..Len(LowerLetters) : LowerLetters[i] = c
    THEN UpperLetters[CHOOSE i \in 1..Len(LowerLetters) : LowerLetters[i] = c]
    ELSE c

\* str.lower()
Lower(s) == [i \in 1..Len(s) |-> LowerChar(s[i])]

\* str.upper()
Upper(s) == [i \in 1..Len(s) |-> UpperChar(s[i])]

RECURSIVE LStrip(_)
LStrip(s) ==
    IF s # <<>> /\ Head(s) \in Whitespace THEN LStrip(Tail(s)) ELSE s

RECURSIVE RStrip(_)
RStrip(s) ==
    IF s # <<>> /\ s[Len(s)] \in Whitespace
    THEN RStrip(SubSeq(s, 1, Len(s) - 1))
    ELSE s

\* str.strip()
Strip(s) == RStrip(LStrip(s))

\* n blanks
Blanks(n) == [i \in 1..n |-> " "]

\* The words a user types in this model, as Python strings.
W_commands == <<"c", "o", "m", "m", "a", "n", "d", "s">>
W_config == <<"c", "o", "n", "f", "i", "g">>
W_docs == <<"d", "o", "c", "s">>
W_doc == <<"d", "o", "c">>
W_notes == <<"n", "o", "t", "e", "s">>
W_odd == <<"o", "d", "d">>
W_find == <<"f", "i", "n", "d">>
W_Docs == <<"D", "o", "c", "s">>

\* ------------------------------------------------------------ alias values
\* A value of the alias table, as json.loads gives it: a str (one path), a
\* list of str, or (kind "repr") the str that formatting a list into the
\* file leaves behind.
Target(p) == [kind |-> "str", toks |-> <<p>>]
TokenList(l) == [kind |-> "list", toks |-> l]

DEFAULT_COMMANDS ==
    (W_commands :> Target("commands.json")) @@ (W_config :> Target("config.ini"))

\* ------------------------------------------------------------------- files
\* The alias file on disk: absent, text that json.loads rejects, or a JSON
\* object.
AbsentFile == [kind |-> "absent", dict |-> <<>>]
MalformedFile == [kind |-> "malformed", dict |-> <<>>]
JsonFile(d) == [kind |-> "json", dict |-> d]

\* f'"{c}": "{commands[c]}"': every value is written between quotes, so a
\* list is written as the text of its repr and reads back as one str.
FormatValue(v) ==
    IF v.kind = "list" THEN [kind |-> "repr", toks |-> v.toks] ELSE v

\* The file the "write json fancily" loop leaves for the table cmds.
WriteCommands(cmds) == JsonFile([k \in DOMAIN cmds |-> FormatValue(cmds[k])])

\* Paths of the environment other than the program's two own files.
ExistingPaths == {"C:/docs", "C:/odd.xyz"}
\* Existing paths for which the platform has no handler: os.startfile raises
\* an OSError that is not FileNotFoundError.
NoHandlerPaths == {"C:/odd.xyz"}

\* os.path.exists(p) with the alias file cf and the config file gf on disk.
PathExists(p, cf, gf) ==
    CASE p = "commands.json" -> cf.kind # "absent"
      [] p = "config.ini" -> gf.kind # "absent"
      [] OTHER -> p \in ExistingPaths

\* os.startfile(v): "ok", or the exception it raises.
StartFile(v, cf, gf) ==
    CASE v.kind = "list" -> "TypeError"
      [] v.kind = "repr" -> "FileNotFoundError"
      [] OTHER ->
            IF ~PathExists(v.toks[1], cf, gf) THEN "FileNotFoundError"
            ELSE IF v.toks[1] \in NoHandlerPaths THEN "OSError"
            ELSE "ok"

\* -------------------------------------------- functions of the tk/qt variants
\* make_default_commands_file that returns the defaults without writing them.
make_default_commands_file_unwritten ==
    [raised |-> FALSE, table |-> DEFAULT_COMMANDS, file |-> AbsentFile]

\* make_default_commands_file(path): the table returned and the file written.
make_default_commands_file ==
    [raised |-> FALSE, table |-> DEFAULT_COMMANDS, file |-> WriteCommands(DEFAULT_COMMANDS)]

\* load_commands_file that replaces a file it cannot parse with the defaults.
load_commands_file_reset(cf) ==
    CASE cf.kind \in {"absent", "malformed"} -> make_default_commands_file
      [] OTHER -> [raised |-> FALSE, table |-> cf.dict, file |-> cf]

\* load_commands_file(path) on the file cf.
load_commands_file(cf) ==
    CASE cf.kind = "absent" -> make_default_commands_file
      [] cf.kind = "malformed" -> [raised |-> TRUE, table |-> <<>>, file |-> cf]
      [] OTHER -> [raised |-> FALSE, table |-> cf.dict, file |-> cf]

\* The result of one call of run_command: status is "None", "SUCCESS",
\* "INVALID", "MISSING_FILE" or "raise" (an exception leaves the function);
\* started lists the arguments os.startfile was called with; reads counts the
\* loads of the alias file and lookups the tests "command in commands"; file
\* is the alias file afterwards.
RunResult(st, started, reads, lookups, file) ==
    [status |-> st, started |-> started, reads |-> reads, lookups |-> lookups,
     file |-> file]

\* try: os.startfile(v) ... except FileNotFoundError
TryStart(v, reads, cf, gf) ==
    LET r == StartFile(v, cf, gf) IN
    CASE r = "ok" -> RunResult("SUCCESS", <<v>>, reads, 1, cf)
      [] r = "FileNotFoundError" -> RunResult("MISSING_FILE", <<v>>, reads, 1, cf)
      [] OTHER -> RunResult("raise", <<v>>, reads, 1, cf)

\* run_command with the alias file loaded before the input is tested.
run_command_load_first(text, cf, gf) ==
    LET stripped == Strip(text)
        command == Lower(stripped)
        ld == load_commands_file(cf)
    IN  IF ld.raised THEN RunResult("raise", <<>>, 1, 0, ld.file)
        ELSE IF stripped = <<>> THEN RunResult("None", <<>>, 1, 0, ld.file)
        ELSE IF command \in DOMAIN ld.table
             THEN TryStart(ld.table[command], 1, ld.file, gf)
             ELSE RunResult("INVALID", <<>>, 1, 1, ld.file)

\* run_command(command) of the tk and qt variants: strip, test, lower, load
\* the alias file, look up.
run_command(text, cf, gf) ==
    LET stripped == Strip(text)
        command == Lower(stripped)
        ld == load_commands_file(cf)
    IN  IF stripped = <<>> THEN RunResult("None", <<>>, 0, 0, cf)
        ELSE IF ld.raised THEN RunResult("raise", <<>>, 1, 0, ld.file)
        ELSE IF command \in DOMAIN ld.table
             THEN TryStart(ld.table[command], 1, ld.file, gf)
             ELSE RunResult("INVALID", <<>>, 1, 1, ld.file)

\* ---------------------------------------------- CommandManager (qtcm variant)
\* CommandManager.run_command(command) on the table cmds: lower, strip, test,
\* look up in self.commands; the alias file is not touched.
CM_run_command(cmds, text, cf, gf) ==
    LET command == Strip(Lower(text)) IN
    IF command = <<>> THEN RunResult("None", <<>>, 0, 0, cf)
    ELSE IF command \in DOMAIN cmds
         THEN TryStart(cmds[command], 0, cf, gf)
         ELSE RunResult("INVALID", <<>>, 0, 1, cf)

\* CommandManager.load_from_file(path) with self.commands = cmds: writes the
\* file when absent, reads it, and merges its entries over cmds.
CM_load_from_file(cmds, cf) ==
    LET onDisk == IF cf.kind = "absent" THEN WriteCommands(cmds) ELSE cf IN
    IF onDisk.kind = "malformed"
    THEN [raised |-> TRUE, table |-> cmds, file |-> onDisk]
    ELSE [raised |-> FALSE,
          table |-> [k \in DOMAIN cmds \cup DOMAIN onDisk.dict |->
                        IF k \in DOMAIN onDisk.dict THEN onDisk.dict[k] ELSE cmds[k]],
          file |-> onDisk]

\* ------------------------------------------------------ display configuration
\* The config file on disk: absent, text configparser cannot parse, a file
\* without an [Options] section, or an [Options] section (option -> text).
NoOptions == [n \in {} |-> ""]
AbsentIni == [kind |-> "absent", opts |-> NoOptions]
UnparsableIni == [kind |-> "unparsable", opts |-> NoOptions]
NoSectionIni == [kind |-> "nosection", opts |-> NoOptions]
IniFile(o) == [kind |-> "ini", opts |-> o]

\* int(text) and float(text) on the texts of this model: the value, written
\* as Python prints it; a text outside the table raises ValueError.
IntOf ==
    [t \in {"10", "20", "30", "32", "42", "64", "8", "600", "800"} |-> t]
        @@ ("020" :> "20")
FloatOf ==
    [t \in {"0.75", "0.8", "0.5"} |-> t] @@ ("1" :> "1.0") @@ (".5" :> "0.5")

\* Colors Tk accepts for a widget option; any other text raises TclError.
TkColors == {"black", "white", "red", "orange", "#000000", "#FFFFFF", "#202020"}

\* defaults of make_default_config, tk variant
tk_defaults ==
    [x |-> "10", y |-> "10", width |-> "30", text_size |-> "32",
     font |-> "Courier New", foreground_color |-> "white",
     background_color |-> "black", opacity |-> "0.8"]

\* defaults of make_default_config, qt variant
qt_defaults ==
    [x |-> "10", y |-> "10", width |-> "800", height |-> "64", text_size |-> "32",
     font |-> "Courier New", foreground_color |-> "white",
     background_color |-> "black", opacity |-> "0.75"]

\* make_default_config(path): writes the defaults and returns them.
make_default_config(defaults) ==
    [raised |-> FALSE, options |-> defaults, file |-> IniFile(defaults)]

\* load_config(path) of the tk and qt variants on the file gf.
load_config(defaults, gf) ==
    CASE gf.kind = "absent" -> make_default_config(defaults)
      [] gf.kind = "unparsable" -> [raised |-> TRUE, options |-> NoOptions, file |-> gf]
      [] gf.kind = "nosection" -> make_default_config(defaults)
      [] OTHER -> [raised |-> FALSE, options |-> gf.opts, file |-> gf]

\* The options main reads without a guard, by the conversion applied.
qt_int_options == {"x", "y", "width", "height", "padding", "text_size"}
qt_str_options == {"font", "foreground_color", "background_color"}
tk_int_options == {"x", "y", "text_size", "width"}
tk_color_options == {"foreground_color", "background_color"}

\* main of the qt variant, from options to the ProtocommWindow(...) call:
\* TRUE when one of the subscripts or conversions raises.
qt_window_raises(o) ==
    \/ \E n \in qt_int_options : n \notin DOMAIN o \/ o[n] \notin DOMAIN IntOf
    \/ \E n \in qt_str_options : n \notin DOMAIN o
    \/ "opacity" \notin DOMAIN o \/ o["opacity"] \notin DOMAIN FloatOf

\* main of the tk variant, from options to entry_box.config(...): TRUE when a
\* subscript raises KeyError or Tk rejects a value.
tk_window_raises(o) ==
    \/ \E n \in tk_int_options : n \notin DOMAIN o \/ o[n] \notin DOMAIN IntOf
    \/ \E n \in tk_color_options : n \notin DOMAIN o \/ o[n] \notin TkColors
    \/ "font" \notin DOMAIN o
    \/ "opacity" \notin DOMAIN o \/ o["opacity"] \notin DOMAIN FloatOf

\* ProtocommWindowConfig: the dataclass fields with their types and defaults.
var_types ==
    [x |-> "int", y |-> "int", width |-> "int", height |-> "int",
     padding |-> "int", text_size |-> "int", font |-> "str", fg_color |-> "str",
     bg_color |-> "str", opacity |-> "float"]
ProtocommWindowConfig ==
    [x |-> "10", y |-> "10", width |-> "600", height |-> "42", padding |-> "8",
     text_size |-> "32", font |-> "Courier New", fg_color |-> "#FFFFFF",
     bg_color |-> "#000000", opacity |-> "0.75"]

\* The body of the for loop of ProtocommWindowConfig.load_from_file for the
\* field v: the converted option, or the field as it was when o[v] or the
\* conversion raises (the except clause only logs).
LoadField(self, o, v) ==
    IF v \notin DOMAIN o THEN self[v]
    ELSE CASE var_types[v] = "int" ->
                IF o[v] \in DOMAIN IntOf THEN IntOf[o[v]] ELSE self[v]
           [] var_types[v] = "float" ->
                IF o[v] \in DOMAIN FloatOf THEN FloatOf[o[v]] ELSE self[v]
           [] OTHER -> o[v]

\* ProtocommWindowConfig.write_to_file(path): vars(self) under [Options].
PWC_write_to_file(self) == IniFile(self)

\* ProtocommWindowConfig.load_from_file(path) on the file gf.
PWC_load_from_file(self, gf) ==
    LET onDisk == IF gf.kind = "absent" THEN PWC_write_to_file(self) ELSE gf IN
    IF onDisk.kind \in {"unparsable", "nosection"}
    THEN [raised |-> TRUE, options |-> self, file |-> onDisk]
    ELSE [raised |-> FALSE,
          options |-> [v \in DOMAIN var_types |-> LoadField(self, onDisk.opts, v)],
          file |-> onDisk]

\* ------------------------------------------------------------- environment
\* Alias files a user may have left on disk before the program starts.
UserCommands ==
    (W_docs :> Target("C:/docs")) @@ (W_notes :> Target("C:/gone"))
        @@ (W_odd :> Target("C:/odd.xyz"))
        @@ (W_find :> TokenList(<<"open-browser", "https://example.com/q={CLIPBOARD}">>))
        @@ DEFAULT_COMMANDS
UpperKeyCommands == (W_Docs :> Target("C:/docs"))
RedefinedCommands == (W_commands :> Target("C:/gone")) @@ (W_docs :> Target("C:/docs"))
CommandFiles ==
    {AbsentFile, MalformedFile, JsonFile(UserCommands), JsonFile(UpperKeyCommands),
     JsonFile(RedefinedCommands)}

\* Config files a user may have left on disk: every option of every variant,
\* with values other than the defaults.
SavedOptions ==
    [x |-> "20", y |-> "020", width |-> "30", height |-> "64", padding |-> "8",
     text_size |-> "32", font |-> "Arial", foreground_color |-> "white",
     background_color |-> "#202020", fg_color |-> "white", bg_color |-> "#202020",
     opacity |-> ".5"]
ConfigFiles ==
    {AbsentIni, UnparsableIni, NoSectionIni, IniFile(SavedOptions),
     IniFile([SavedOptions EXCEPT !["opacity"] = "opaque"])}

\* Texts the user leaves in the entry: blank ones, the words as they are,
\* and the words in upper case between blanks.
Words == {W_commands, W_docs, W_Docs, W_doc, W_notes, W_odd, W_find}
Inputs ==
    {Blanks(n) : n \in 0..MaxPad}
        \cup Words
        \cup {Blanks(n) \o Upper(w) \o Blanks(n) : n \in 1..MaxPad, w \in Words}

Variants == {"tk", "qt", "qtcm"}

\* ------------------------------------------------------------------- state
VARIABLES
    variant,       \* which of the three programs runs
    state,         \* "NotStarted", "AwaitingInput", "Closing" (quit / window
                   \* destroyed), "Exited" (startup exception logged, then
                   \* sys.exit()), "Crashed" (uncaught exception ends the process)
    configFile,    \* config.ini on disk
    commandsFile,  \* commands.json on disk
    options,       \* the display configuration held in memory
    commands,      \* CommandManager.commands (qtcm variant)
    text,          \* content of the entry / line edit
    bg,            \* background color of the flashed widget
    afters,        \* tk: pending widget.after callbacks, oldest first
    timer,         \* qt: self.timer, [active, left]
    slots,         \* qt: callables connected to self.timer.timeout, in order
    submits,       \* Return presses with a non-blank input so far
    flashCount,    \* flashes started so far; the latest flash has this number
    flashColor,    \* color of the latest flash
    overlapped,    \* the latest flash started while an earlier reset had not run
    flashLog,      \* the background before the latest flash; some flash overlapped
    last,          \* what the latest handler did
    firstRun       \* the program started with neither file on disk

vars ==
    <<variant, state, configFile, commandsFile, options, commands, text, bg,
      afters, timer, slots, submits, flashCount, flashColor, overlapped,
      flashLog, last,
      firstRun>>

NoCommands == [k \in {} |-> Target("")]

\* Record of a handler: the event, the text it handed to run_command and the
\* status run_command returned (called tells whether it was called at all),
\* the os.startfile calls, the loads of
\* the alias file, the table lookups, and the numbers of the flashes whose
\* reset callbacks ran, in order.
Did(event, called, input, r, ran) ==
    [event |-> event, called |-> called, input |-> input, status |-> r.status,
     started |-> r.started, reads |-> r.reads, lookups |-> r.lookups, ran |-> ran]
NoRun == RunResult("None", <<>>, 0, 0, AbsentFile)

Init ==
    /\ variant \in Variants
    /\ state = "NotStarted"
    /\ configFile \in ConfigFiles
    /\ commandsFile \in CommandFiles
    /\ options = NoOptions
    /\ commands = NoCommands
    /\ text = <<>>
    /\ bg = ""
    /\ afters = <<>>
    /\ timer = [active |-> FALSE, left |-> 0]
    /\ slots = <<>>
    /\ submits = 0
    /\ flashCount = 0
    /\ flashColor = ""
    /\ overlapped = FALSE
    /\ flashLog = [before |-> "", ever |-> FALSE]
    /\ last = Did("none", FALSE, <<>>, NoRun, <<>>)
    /\ firstRun = (configFile = AbsentIni /\ commandsFile = AbsentFile)

\* ----------------------------------------------------------------- startup
flashVars ==
    <<bg, afters, timer, slots, flashCount, flashColor, overlapped, flashLog>>

\* The window is built and shown with the background color c.
ShowWindow(c) ==
    /\ state' = "AwaitingInput"
    /\ bg' = c

\* main() of the tk variant: load_config, then the window; nothing catches.
tk_main ==
    LET ld == load_config(tk_defaults, configFile) IN
    /\ configFile' = ld.file
    /\ IF ld.raised \/ tk_window_raises(ld.options)
       THEN state' = "Crashed" /\ UNCHANGED <<options, bg>>
       ELSE options' = ld.options /\ ShowWindow(ld.options["background_color"])
    /\ UNCHANGED <<commandsFile, commands>>

\* main() of the qt variant: load_config, then ProtocommWindow(...); nothing
\* catches.
qt_main ==
    LET ld == load_config(qt_defaults, configFile) IN
    /\ configFile' = ld.file
    /\ IF ld.raised \/ qt_window_raises(ld.options)
       THEN state' = "Crashed" /\ UNCHANGED <<options, bg>>
       ELSE options' = ld.options /\ ShowWindow(ld.options["background_color"])
    /\ UNCHANGED <<commandsFile, commands>>

\* main() of the qtcm variant: config.load_from_file, commands.load_from_file,
\* then the window, inside try ... except Exception: logger.exception(e),
\* followed by sys.exit().
qtcm_main ==
    LET cfg == PWC_load_from_file(ProtocommWindowConfig, configFile)
        cm == CM_load_from_file(DEFAULT_COMMANDS, commandsFile)
    IN  /\ configFile' = cfg.file
        /\ IF cfg.raised
           THEN state' = "Exited" /\ UNCHANGED <<options, bg, commandsFile, commands>>
           ELSE /\ options' = cfg.options
                /\ commandsFile' = cm.file
                /\ IF cm.raised
                   THEN state' = "Exited" /\ UNCHANGED <<bg, commands>>
                   ELSE commands' = cm.table /\ ShowWindow(cfg.options["bg_color"])

Main ==
    /\ state = "NotStarted"
    /\ CASE variant = "tk" -> tk_main
         [] variant = "qt" -> qt_main
         [] OTHER -> qtcm_main
    /\ last' = Did("main", FALSE, <<>>, NoRun, <<>>)
    /\ UNCHANGED <<firstRun, variant, text, afters, timer, slots, submits, flashCount,
                   flashColor, overlapped,
                   flashLog>>

\* ----------------------------------------------------------------- flashes
\* flash_widget_background that reads the background after setting the color.
flash_widget_background_reads_late(color) ==
    /\ afters' = Append(afters, [left |-> FlashDuration, style |-> color,
                                 id |-> flashCount + 1])
    /\ bg' = color
    /\ overlapped' = (afters # <<>>)
    /\ UNCHANGED <<timer, slots>>

\* flash_widget_background(entry, color) of the tk variant: remember the
\* current background, set the color, schedule the reset with widget.after.
flash_widget_background(color) ==
    /\ afters' = Append(afters, [left |-> FlashDuration, style |-> bg,
                                 id |-> flashCount + 1])
    /\ bg' = color
    /\ overlapped' = (afters # <<>>)
    /\ UNCHANGED <<timer, slots>>

\* ProtocommWindow.flash(color, duration) of the qt and qtcm variants:
\* remember the current style, set the color, connect one more callable to
\* the timer's timeout signal and (re)start the timer.
flash(color) ==
    /\ slots' = Append(slots, [style |-> bg, id |-> flashCount + 1, fired |-> FALSE])
    /\ bg' = color
    /\ timer' = [active |-> TRUE, left |-> FlashDuration]
    /\ overlapped' = (\E i \in 1..Len(slots) : ~slots[i].fired)
    /\ UNCHANGED afters

\* A flash of any variant, with its number and color recorded.
StartFlash(color) ==
    /\ IF variant = "tk" THEN flash_widget_background(color) ELSE flash(color)
    /\ flashCount' = flashCount + 1
    /\ flashColor' = color
    /\ flashLog' = [before |-> bg, ever |-> flashLog.ever \/ overlapped']

\* clear that leaves the text in the entry.
clear_nothing == UNCHANGED text

\* clear_entry(entry) / ProtocommWindow.clear()
clear == text' = <<>>

\* close_window that returns without destroying the window.
close_window_ignored == UNCHANGED state

\* close_window(window): window.destroy(); sys.exit()
close_window == state' = "Closing"

\* exit_app that does not quit.
exit_app_ignored == UNCHANGED state

\* exit_app() / QApplication.instance().quit()
exit_app == state' = "Closing"

\* The colors handed to the flash, per variant.
InvalidColor == IF variant = "tk" THEN "red" ELSE "#FF0000"
\* The missing-file branch flashing the color of the invalid branch.
MissingColor_as_invalid == InvalidColor
MissingColor == IF variant = "tk" THEN "orange" ELSE "#FF8800"

\* -------------------------------------------------------------- key events
\* The user edits the entry; the toolkit's widget keeps the text.
Type(s) ==
    /\ state = "AwaitingInput"
    /\ s # text
    /\ text' = s
    /\ last' = Did("Type", FALSE, <<>>, NoRun, <<>>)
    /\ UNCHANGED <<firstRun, variant, state, configFile, commandsFile, options, commands,
                   submits>>
    /\ UNCHANGED flashVars

\* What the Return handler of the running variant gets from run_command.
RunNow ==
    IF variant = "qtcm"
    THEN CM_run_command(commands, text, commandsFile, configFile)
    ELSE run_command(text, commandsFile, configFile)

\* An exception leaves a handler: Tk reports it and goes on with the loop;
\* PyQt6 aborts the process.
HandlerRaised ==
    IF variant = "tk" THEN state' = state ELSE state' = "Crashed"

\* handle_return (tk) / the Return branch of ProtocommWindow.keyPressEvent.
Return ==
    /\ state = "AwaitingInput"
    /\ Strip(text) = <<>> \/ submits < MaxSubmits
    /\ LET r == RunNow IN
        /\ commandsFile' = r.file
        /\ submits' = IF Strip(text) = <<>> THEN submits ELSE submits + 1
        /\ last' = Did("Return", TRUE, text, r, <<>>)
        /\ CASE r.status = "SUCCESS" ->
                    /\ IF variant = "tk" THEN close_window ELSE exit_app
                    /\ UNCHANGED text
                    /\ UNCHANGED flashVars
             [] r.status = "INVALID" ->
                    /\ clear
                    /\ StartFlash(InvalidColor)
                    /\ UNCHANGED state
             [] r.status = "MISSING_FILE" ->
                    /\ clear
                    /\ StartFlash(MissingColor)
                    /\ UNCHANGED state
             [] r.status = "raise" ->
                    /\ HandlerRaised
                    /\ UNCHANGED text
                    /\ UNCHANGED flashVars
             [] OTHER ->
                    /\ UNCHANGED <<state, text>>
                    /\ UNCHANGED flashVars
    /\ UNCHANGED <<firstRun, variant, configFile, options, commands>>

\* focusOutEvent that only logs.
focusOutEvent_ignored == UNCHANGED state

\* NoCursorQLineEdit.focusOutEvent: quits the application.
focusOutEvent == exit_app

\* <Escape> binding (tk): close_window; qt: QApplication.instance().quit();
\* qtcm: self.clearFocus(), which takes the focus from the line edit (the
\* window's focus proxy), whose focusOutEvent runs before clearFocus returns.
Escape ==
    /\ state = "AwaitingInput"
    /\ CASE variant = "tk" -> close_window
         [] variant = "qt" -> exit_app
         [] OTHER -> focusOutEvent
    /\ last' = Did("Escape", FALSE, <<>>, NoRun, <<>>)
    /\ UNCHANGED <<firstRun, variant, configFile, commandsFile, options, commands, text,
                   submits>>
    /\ UNCHANGED flashVars

\* <FocusOut> binding (tk): close_window; qt, qtcm: focusOutEvent.
FocusOut ==
    /\ state = "AwaitingInput"
    /\ IF variant = "tk" THEN close_window ELSE focusOutEvent
    /\ last' = Did("FocusOut", FALSE, <<>>, NoRun, <<>>)
    /\ UNCHANGED <<firstRun, variant, configFile, commandsFile, options, commands, text,
                   submits>>
    /\ UNCHANGED flashVars

\* ------------------------------------------------------------------ timers
Max(a, b) == IF a >= b THEN a ELSE b

\* Time passes; no callback that is due is skipped.
Tick ==
    /\ state = "AwaitingInput"
    /\ afters # <<>> \/ timer.active
    /\ \A i \in 1..Len(afters) : afters[i].left > 0
    /\ timer.active => timer.left > 0
    /\ afters' = [i \in 1..Len(afters) |->
                    [afters[i] EXCEPT !.left = Max(0, @ - TickMs)]]
    /\ timer' = IF timer.active
                THEN [timer EXCEPT !.left = Max(0, @ - TickMs)]
                ELSE timer
    /\ last' = Did("Tick", FALSE, <<>>, NoRun, <<>>)
    /\ UNCHANGED <<firstRun, variant, state, configFile, commandsFile, options, commands,
                   text, bg, slots, submits, flashCount, flashColor, overlapped,
                   flashLog>>

\* tk: the oldest due callback of widget.after runs:
\* lambda: widget.config(bg=bg_color).
AfterFires ==
    /\ state = "AwaitingInput"
    /\ variant = "tk"
    /\ afters # <<>>
    /\ Head(afters).left = 0
    /\ bg' = Head(afters).style
    /\ afters' = Tail(afters)
    /\ last' = Did("Timeout", FALSE, <<>>, NoRun, <<Head(afters).id>>)
    /\ UNCHANGED <<firstRun, variant, state, configFile, commandsFile, options, commands,
                   text, timer, slots, submits, flashCount, flashColor, overlapped,
                   flashLog>>

\* qt: the timeout signal calls every connected lambda in connection order:
\* lambda: self.frame.setStyleSheet(current_style).  Nothing disconnects.
qt_timeout ==
    /\ bg' = IF slots = <<>> THEN bg ELSE slots[Len(slots)].style
    /\ slots' = [i \in 1..Len(slots) |-> [slots[i] EXCEPT !.fired = TRUE]]
    /\ last' = Did("Timeout", FALSE, <<>>, NoRun, [i \in 1..Len(slots) |-> slots[i].id])

\* qtcm: timeout(obj, style) of the first connected lambda sets the style
\* and calls obj.timer.timeout.disconnect(), which removes every connection
\* of the signal, those not yet called in this emission included.
qtcm_timeout ==
    /\ bg' = IF slots = <<>> THEN bg ELSE slots[1].style
    /\ slots' = <<>>
    /\ last' = Did("Timeout", FALSE, <<>>, NoRun,
                   IF slots = <<>> THEN <<>> ELSE <<slots[1].id>>)

\* qt, qtcm: self.timer (a repeating QTimer) times out and starts its next
\* interval.
Timeout ==
    /\ state = "AwaitingInput"
    /\ variant # "tk"
    /\ timer.active
    /\ timer.left = 0
    /\ IF variant = "qt" THEN qt_timeout ELSE qtcm_timeout
    /\ timer' = [timer EXCEPT !.left = FlashDuration]
    /\ UNCHANGED <<firstRun, variant, state, configFile, commandsFile, options, commands,
                   text, afters, submits, flashCount, flashColor, overlapped,
                   flashLog>>

\* ----------------------------------------------------------- specification
Next ==
    \/ Main
    \/ \E s \in Inputs : Type(s)
    \/ Return
    \/ Escape
    \/ FocusOut
    \/ Tick
    \/ AfterFires
    \/ Timeout

Spec == Init /\ [][Next]_vars

\* ------------------------------------------------------ notions of the claims
\* The color a color text denotes: Tk resolves the names the tk variant
\* uses; a "#RRGGBB" text denotes itself.
ColorValue(c) ==
    CASE c = "red" -> "#FF0000"
      [] c = "orange" -> "#FFA500"
      [] c = "black" -> "#000000"
      [] c = "white" -> "#FFFFFF"
      [] OTHER -> c

\* The configured (base) background color of the running session.
BaseColor ==
    IF variant = "qtcm" THEN options["bg_color"] ELSE options["background_color"]

\* The alias table a submit consults now: the table in memory (qtcm) or the
\* one each run_command loads from the alias file (tk, qt); TableKnown tells
\* whether there is one.
TableKnown == variant = "qtcm" \/ ~load_commands_file(commandsFile).raised
TableNow ==
    IF variant = "qtcm" THEN commands ELSE load_commands_file(commandsFile).table
\* The alias file when the target is opened.
FileAtOpen ==
    IF variant = "qtcm" THEN commandsFile ELSE load_commands_file(commandsFile).file

\* The trimmed, lowercased form of an input.
Norm(t) == Lower(Strip(t))
IsBlank(t) == Strip(t) = <<>>

\* A reset of the latest flash can still run.
OwnResetPending ==
    \/ \E i \in 1..Len(afters) : afters[i].id = flashCount
    \/ \E i \in 1..Len(slots) : slots[i].id = flashCount /\ ~slots[i].fired
\* No reset is left that has not run.
NoResetPending ==
    /\ afters = <<>>
    /\ \A i \in 1..Len(slots) : slots[i].fired

\* --------------------------------------------------------------------- C1
\* C1: whenever Return is pressed while the input is empty or whitespace
\* only, the session moves to Closing.
C1_EmptySubmitCloses ==
    [][(last'.event = "Return" /\ IsBlank(text)) => state' = "Closing"]_vars

\* --------------------------------------------------------------------- C2
\* C2: for a flash that starts before the reset of the flash before it has
\* run: until its own reset runs the background shows its color and no
\* other, and once no reset is left to run the background is the base color.
C2_OverlappingFlashesSettle ==
    (state = "AwaitingInput" /\ overlapped) =>
        /\ OwnResetPending => bg = flashColor
        /\ NoResetPending => ColorValue(bg) = ColorValue(BaseColor)

\* --------------------------------------------------------------------- C3
\* C3: the only reset callbacks that run are those of the latest flash: a
\* reset scheduled by an earlier flash never runs once a newer flash has
\* started.
C3_StaleResetNeverRuns ==
    \A i \in 1..Len(last.ran) : last.ran[i] = flashCount

\* --------------------------------------------------------------------- C4
\* A reset of the latest flash is scheduled a full flash duration ahead.
FullResetPending ==
    \/ \E i \in 1..Len(afters) :
            afters[i].id = flashCount /\ afters[i].left = FlashDuration
    \/ /\ timer.active
       /\ timer.left = FlashDuration
       /\ \E i \in 1..Len(slots) : slots[i].id = flashCount /\ ~slots[i].fired

\* C4: whenever Return is pressed with a non-blank input whose trimmed,
\* lowercased form is a key of the alias table and opening its target
\* succeeds, the outcome is Success, exactly one open invocation is made,
\* with exactly the stored target, and the session moves to Closing without
\* flashing.
C4_SuccessOpensOnceAndCloses ==
    [][(/\ last'.event = "Return"
        /\ ~IsBlank(text)
        /\ TableKnown
        /\ Norm(text) \in DOMAIN TableNow
        /\ StartFile(TableNow[Norm(text)], FileAtOpen, configFile) = "ok")
       => (/\ last'.status = "SUCCESS"
           /\ last'.started = <<TableNow[Norm(text)]>>
           /\ state' = "Closing"
           /\ UNCHANGED flashVars)]_vars

C4_Witness ==
    /\ state = "Closing"
    /\ last.event = "Return"
    /\ last.input = Blanks(1) \o Upper(W_docs) \o Blanks(1)
    /\ last.status = "SUCCESS"
    /\ last.started = <<Target("C:/docs")>>

\* --------------------------------------------------------------------- C5
\* C5: whenever Return is pressed with a non-blank input whose trimmed,
\* lowercased form is not a key of the alias table, the outcome is
\* InvalidCommand: no open invocation is made, the input is cleared in the
\* step in which the flash starts, the background is red (#FF0000) with its
\* reset a flash duration ahead, and the session stays in AwaitingInput.
C5_UnknownAliasClearsAndFlashesRed ==
    [][(/\ last'.event = "Return"
        /\ ~IsBlank(text)
        /\ TableKnown
        /\ Norm(text) \notin DOMAIN TableNow)
       => (/\ last'.status = "INVALID"
           /\ last'.started = <<>>
           /\ text' = <<>>
           /\ flashCount' = flashCount + 1
           /\ ColorValue(bg') = "#FF0000"
           /\ FullResetPending'
           /\ state' = "AwaitingInput")]_vars

C5_Witness ==
    /\ state = "AwaitingInput"
    /\ last.event = "Return"
    /\ last.input = W_doc
    /\ W_docs \in DOMAIN TableNow
    /\ last.status = "INVALID"
    /\ text = <<>>
    /\ ColorValue(bg) = "#FF0000"
    /\ FullResetPending

\* --------------------------------------------------------------------- C6
\* The input resolves to an alias whose target does not exist at open time.
TargetIsMissing ==
    /\ ~IsBlank(text)
    /\ TableKnown
    /\ Norm(text) \in DOMAIN TableNow
    /\ StartFile(TableNow[Norm(text)], FileAtOpen, configFile) = "FileNotFoundError"

\* C6 as stated: whenever Return is pressed with an input that resolves to an
\* alias whose target does not exist, the outcome is TargetMissing, the input
\* is cleared, the background is #FF8800 for the flash duration, and the
\* session stays in AwaitingInput.
C6_MissingTargetFlashesFF8800 ==
    [][(last'.event = "Return" /\ TargetIsMissing)
       => (/\ last'.status = "MISSING_FILE"
           /\ text' = <<>>
           /\ flashCount' = flashCount + 1
           /\ ColorValue(bg') = "#FF8800"
           /\ FullResetPending'
           /\ state' = "AwaitingInput")]_vars

\* C6 as amended: whenever Return is pressed with an input that resolves to
\* an alias whose target does not exist, the outcome is TargetMissing, the
\* input is cleared, the background is the variant's orange (#FF8800 in the
\* Qt variants, Tk's color "orange" in the tk variant), never the red of
\* InvalidCommand, for the flash duration, and the session stays in
\* AwaitingInput.
C6_MissingTargetFlashesOrange ==
    [][(last'.event = "Return" /\ TargetIsMissing)
       => (/\ last'.status = "MISSING_FILE"
           /\ text' = <<>>
           /\ flashCount' = flashCount + 1
           /\ bg' = (IF variant = "tk" THEN "orange" ELSE "#FF8800")
           /\ ColorValue(bg') # "#FF0000"
           /\ FullResetPending'
           /\ state' = "AwaitingInput")]_vars

C6_Witness ==
    /\ state = "AwaitingInput"
    /\ variant = "tk"
    /\ last.event = "Return"
    /\ last.input = W_notes
    /\ last.status = "MISSING_FILE"
    /\ last.started = <<Target("C:/gone")>>
    /\ text = <<>>
    /\ bg = "orange"
    /\ FullResetPending

\* --------------------------------------------------------------------- C7
\* C7: in every state of a live session Escape can be pressed, and pressing
\* it leads to Closing without a call of run_command, an open invocation, an
\* alias lookup or a load of the alias file.
C7_EscapeCloses ==
    [][/\ state = "AwaitingInput" => ENABLED Escape
       /\ last'.event = "Escape"
            => (/\ state' = "Closing"
                /\ ~last'.called
                /\ last'.started = <<>>
                /\ last'.lookups = 0
                /\ last'.reads = 0
                /\ UNCHANGED <<commandsFile, commands>>)]_vars

C7_Witness ==
    /\ state = "Closing"
    /\ variant = "qtcm"
    /\ last.event = "Escape"
    /\ text # <<>>
    /\ timer.active
    /\ slots # <<>>

\* --------------------------------------------------------------------- C8
\* C8: in every state of a live session the input can lose the focus, which
\* leads to Closing with no open invocation; no step leaves Closing.
C8_FocusLossClosesForGood ==
    [][/\ state = "AwaitingInput" => ENABLED FocusOut
       /\ last'.event = "FocusOut"
            => (state' = "Closing" /\ ~last'.called /\ last'.started = <<>>)
       /\ state # "Closing"]_vars

C8_Witness ==
    /\ state = "Closing"
    /\ variant = "tk"
    /\ last.event = "FocusOut"
    /\ text # <<>>
    /\ afters # <<>>

\* --------------------------------------------------------------------- C9
\* C9: for every alias k stored in the table with target v, submitting k and
\* submitting k in upper case between blanks both look up v.
C9_EveryStoredKeyResolves ==
    [][(last'.event = "Return" /\ TableKnown)
       => \A k \in DOMAIN TableNow :
            (\/ text = k
             \/ \E n \in 0..MaxPad : text = Blanks(n) \o Upper(k) \o Blanks(n))
            => last'.started = <<TableNow[k]>>]_vars

\* -------------------------------------------------------------------- C10
\* C10: running a command with an empty or whitespace-only input yields no
\* outcome, makes no open invocation and neither reads, creates nor changes
\* the alias table or its file.
C10_BlankRunDoesNothing ==
    [][(last'.event = "Return" /\ IsBlank(text))
       => (/\ last'.status = "None"
           /\ last'.started = <<>>
           /\ last'.reads = 0
           /\ last'.lookups = 0
           /\ UNCHANGED <<commandsFile, commands>>)]_vars

C10_Witness ==
    /\ variant = "qt"
    /\ last.event = "Return"
    /\ last.input = Blanks(1)
    /\ last.status = "None"
    /\ commandsFile = AbsentFile

\* ------------------------------------------------------ loads of the files
\* A table in which the two reserved keys are present and name the alias
\* file's own path and the configuration file's own path.
ReservedResolve(t) ==
    /\ W_commands \in DOMAIN t
    /\ t[W_commands] = Target("commands.json")
    /\ W_config \in DOMAIN t
    /\ t[W_config] = Target("config.ini")

\* This step loads the alias table and the load returns: startup of the qtcm
\* variant once the configuration is loaded, a non-blank submit in the others.
LoadsTable ==
    \/ /\ variant = "qtcm"
       /\ last'.event = "main"
       /\ state' = "AwaitingInput"
    \/ /\ variant # "qtcm"
       /\ last'.event = "Return"
       /\ last'.reads = 1
       /\ ~load_commands_file(commandsFile).raised
\* The table that load returns.
LoadedTable ==
    IF variant = "qtcm" THEN commands' ELSE load_commands_file(commandsFile).table

\* C11: after any load of the alias table, whatever the file held (absent,
\* without the reserved keys, or redefining them), the keys commands and
\* config are present and resolve to the alias file's own path and to the
\* configuration file's own path.
C11_ReservedKeysResolveAfterLoad ==
    [][LoadsTable => ReservedResolve(LoadedTable)]_vars

\* C12: when the program was started with neither file on disk and the
\* session has ended (Escape, focus loss or a submit that closes), both
\* commands.json and config.ini exist.
C12_FirstRunLeavesBothFiles ==
    (firstRun /\ state = "Closing")
        => (commandsFile.kind # "absent" /\ configFile.kind # "absent")

\* The table a load that follows this step returns.
FollowingLoadTable ==
    IF variant = "qtcm"
    THEN CM_load_from_file(commands', commandsFile').table
    ELSE load_commands_file(commandsFile').table

\* C13: a load of the alias table while commands.json is absent creates the
\* file with exactly the two built-in entries and returns a table with
\* exactly those two entries; a following load of the created file returns
\* the same table.
C13_AbsentFileLoadsDefaults ==
    [][(commandsFile = AbsentFile /\ LoadsTable)
       => (/\ commandsFile' = JsonFile(DEFAULT_COMMANDS)
           /\ LoadedTable = DEFAULT_COMMANDS
           /\ DOMAIN LoadedTable = {W_commands, W_config}
           /\ FollowingLoadTable = LoadedTable)]_vars
\* The first submit of a first run has loaded the table and left the file.
C13_Witness ==
    /\ firstRun
    /\ variant # "qtcm"
    /\ last.event = "Return"
    /\ last.reads = 1
    /\ submits = 1
    /\ commandsFile = JsonFile(DEFAULT_COMMANDS)

CommandManager(c) == IF DOMAIN c = {} THEN DEFAULT_COMMANDS ELSE c

\* Tables a CommandManager is constructed with: targets that are one string
\* or a list of strings, none with a quote character.
StoreKeys == {W_commands, W_config, W_docs, W_find}
StoreValues ==
    {Target("commands.json"), Target("config.ini"), Target("C:/docs"),
     TokenList(<<"open-browser", "https://example.com/q={CLIPBOARD}">>)}
StoreTables ==
    UNION {[ks -> StoreValues] : ks \in SUBSET StoreKeys}

\* A manager holding a table, and commands.json not yet written.
StoreInit ==
    /\ variant = "qtcm"
    /\ state = "TableHeld"
    /\ configFile = AbsentIni
    /\ commandsFile = AbsentFile
    /\ options = NoOptions
    /\ commands \in {CommandManager(c) : c \in StoreTables}
    /\ text = <<>>
    /\ bg = ""
    /\ afters = <<>>
    /\ timer = [active |-> FALSE, left |-> 0]
    /\ slots = <<>>
    /\ submits = 0
    /\ flashCount = 0
    /\ flashColor = ""
    /\ overlapped = FALSE
    /\ flashLog = [before |-> "", ever |-> FALSE]
    /\ last = Did("none", FALSE, <<>>, NoRun, <<>>)
    /\ firstRun = FALSE

storeFixed ==
    <<firstRun, variant, configFile, options, text, bg, afters, timer, slots,
      submits, flashCount, flashColor, overlapped,
                   flashLog>>

\* self.write_to_file('commands.json') of the manager that holds the table.
SaveTable ==
    /\ state \in {"TableHeld", "TableLoaded"}
    /\ commandsFile' = WriteCommands(commands)
    /\ state' = "TableSaved"
    /\ last' = Did("write_to_file", FALSE, <<>>, NoRun, <<>>)
    /\ UNCHANGED commands
    /\ UNCHANGED storeFixed

\* self.load_from_file('commands.json') of the manager that saved the table.
LoadTable ==
    /\ state = "TableSaved"
    /\ LET ld == CM_load_from_file(commands, commandsFile) IN
        /\ ~ld.raised
        /\ commands' = ld.table
        /\ commandsFile' = ld.file
    /\ state' = "TableLoaded"
    /\ last' = Did("load_from_file", FALSE, <<>>, NoRun, <<>>)
    /\ UNCHANGED storeFixed

\* CommandManager().load_from_file('commands.json') as main() does it: a new
\* manager, which starts with the built-in table.
LoadTableAtStartup ==
    /\ state = "TableSaved"
    /\ LET ld == CM_load_from_file(CommandManager(NoCommands), commandsFile) IN
        /\ ~ld.raised
        /\ commands' = ld.table
        /\ commandsFile' = ld.file
    /\ state' = "TableLoaded"
    /\ last' = Did("main", FALSE, <<>>, NoRun, <<>>)
    /\ UNCHANGED storeFixed

StoreNext == SaveTable \/ LoadTable \/ LoadTableAtStartup
StoreSpec == StoreInit /\ [][StoreNext]_vars

\* C15: saving an alias table whose values are strings or lists of strings
\* and loading the saved file yields a table equal to the one saved; list
\* values stay lists. (Stated for the tables that hold the two built-in
\* entries, which a load by a new manager does not add to.)
C15_SaveLoadRoundTrip ==
    [][(/\ state = "TableSaved"
        /\ state' = "TableLoaded"
        /\ ReservedResolve(commands))
       => commands' = commands]_vars

\* ------------------------------------------------ loads of the configuration
\* The defaults of the variant that runs.
Defaults ==
    CASE variant = "tk" -> tk_defaults
      [] variant = "qt" -> qt_defaults
      [] OTHER -> ProtocommWindowConfig

\* The value of the field g the variant holds after loading the options o.
LoadedValue(o, g) ==
    IF variant = "qtcm" THEN LoadField(ProtocommWindowConfig, o, g) ELSE o[g]

\* A saved configuration in which one field, opacity, no longer converts.
OpacityCorrupted == IniFile([SavedOptions EXCEPT !["opacity"] = "opaque"])

\* C16: when one field of a saved configuration is missing or does not
\* convert to its type, loading does not abort startup and yields the
\* default for that field and the saved value for every other field (here:
\* opacity = "opaque").
C16_OneBadFieldFallsBack ==
    [][(/\ state = "NotStarted"
        /\ configFile = OpacityCorrupted
        /\ commandsFile # MalformedFile)
       => (/\ state' = "AwaitingInput"
           /\ options'["opacity"] = Defaults["opacity"]
           /\ \A g \in DOMAIN Defaults \ {"opacity"} :
                options'[g] = LoadedValue(SavedOptions, g))]_vars

\* C17: when config.ini exists but has no Options section, loading replaces
\* the whole file with the default configuration, the defaults are what is
\* loaded, and startup goes on to AwaitingInput.
C17_NoSectionResetsToDefaults ==
    [][(/\ state = "NotStarted"
        /\ configFile = NoSectionIni
        /\ commandsFile # MalformedFile)
       => (/\ configFile' = IniFile(Defaults)
           /\ state' = "AwaitingInput"
           /\ options' = Defaults)]_vars

\* The fields the window of the variant is built from.
NeededFields ==
    CASE variant = "tk" ->
            tk_int_options \cup tk_color_options \cup {"font", "opacity"}
      [] variant = "qt" ->
            qt_int_options \cup qt_str_options \cup {"opacity"}
      [] OTHER -> DOMAIN var_types

\* C18: starting with config.ini absent is not an error: the default file is
\* written, the configuration loaded has a value for every field the window
\* needs, and startup reaches AwaitingInput.
C18_AbsentConfigStartsWithDefaults ==
    [][(/\ state = "NotStarted"
        /\ configFile = AbsentIni
        /\ commandsFile # MalformedFile)
       => (/\ configFile' = IniFile(Defaults)
           /\ state' = "AwaitingInput"
           /\ NeededFields \subseteq DOMAIN options')]_vars

\* ------------------------------------------------------ list-valued aliases
\* Tokens of the stored aliases that hold the placeholder {CLIPBOARD}.
PlaceholderTokens == {"https://example.com/q={CLIPBOARD}"}

\* Return is pressed with an input that resolves to an alias whose value is a
\* list of tokens.
ResolvesToList ==
    /\ last'.event = "Return"
    /\ ~IsBlank(text)
    /\ TableKnown
    /\ Norm(text) \in DOMAIN TableNow
    /\ TableNow[Norm(text)].kind = "list"

\* C19: when the alias resolved has a list of tokens as value, every
\* {CLIPBOARD} in every token is replaced by the clipboard text and the
\* token sequence is executed, with outcome Success or TargetMissing.
C19_ListAliasRunsWithClipboard ==
    [][ResolvesToList
       => (/\ last'.status \in {"SUCCESS", "MISSING_FILE"}
           /\ \A i \in 1..Len(last'.started) :
                \A j \in 1..Len(last'.started[i].toks) :
                    last'.started[i].toks[j] \notin PlaceholderTokens)]_vars

\* ------------------------------------------------------------ pending resets
\* The reset callbacks that can still fire: every pending widget.after
\* callback (tk); every lambda connected to timer.timeout (qt, where nothing
\* disconnects); the first connected one (qtcm, where it disconnects the
\* others when it runs).
PendingResets ==
    CASE variant = "tk" -> Len(afters)
      [] variant = "qt" -> Len(slots)
      [] OTHER -> IF slots = <<>> THEN 0 ELSE 1

\* C20: in every reachable state at most one flash reset is pending: the
\* number of scheduled or connected reset callbacks that can still fire is
\* 0 or 1.
C20_AtMostOneResetPending == PendingResets \in {0, 1}

\* ------------------------------------------------- flashes that do not overlap
\* C21: a flash that starts while no other reset is pending shows its color
\* until its own reset runs; once that reset has run the background is
\* exactly the one it was before the flash; the session accepts input all
\* along; and as long as no flash has overlapped another, the background is
\* the configured base color whenever no reset is left to run.
C21_FlashClearsItself ==
    (state = "AwaitingInput" /\ flashCount > 0 /\ ~overlapped) =>
        /\ OwnResetPending => bg = flashColor
        /\ ~OwnResetPending => bg = flashLog.before
        /\ (~flashLog.ever /\ NoResetPending)
                => ColorValue(bg) = ColorValue(BaseColor)
\* The reset of the second of two flashes that did not overlap has run.
C21_Witness ==
    /\ state = "AwaitingInput"
    /\ flashCount = 2
    /\ ~flashLog.ever
    /\ NoResetPending
    /\ last.event = "Timeout"
    /\ last.ran # <<>>

\* --------------------------------------------------------------- stored keys
\* C22: every key of the alias table held after a load is non-empty, trimmed
\* and lowercase, whatever the keys in the alias file look like.
C22_StoredKeysNormalized ==
    [][LoadsTable
       => \A k \in DOMAIN LoadedTable : k # <<>> /\ k = Norm(k)]_vars

\* ---------------------------------------------------------- frame of a run
\* C23: running a command, whatever the input and the outcome, leaves the
\* alias table and the content and existence of the alias file unchanged,
\* and the display configuration is unchanged after startup.
C23_RunChangesNoTableNoFile ==
    [][state = "AwaitingInput"
       => (/\ UNCHANGED <<configFile, options>>
           /\ last'.event = "Return" => UNCHANGED <<commandsFile, commands>>)]_vars

\* ------------------------------------------------------ unexpected exceptions
\* C24: an unexpected exception raised during startup or while the session
\* runs is caught at the top level and logged, and the process then exits
\* cleanly: it never ends through an uncaught exception, and a handler that
\* raised is followed by the exit.
C24_ExceptionsCaughtAtTopLevel ==
    [][/\ state' # "Crashed"
       /\ (last'.event = "Return" /\ last'.status = "raise")
            => state' = "Exited"]_vars

====
